---- MODULE Spec2Model ----
(***************************************************************************)
(* Event-sourced audio domain of the Nova platform: the DynamoDB event     *)
(* store, the AudioFile aggregate, the audio repository and the audio use  *)
(* cases, for one aggregate stream written by several processes.  Beside   *)
(* it, each under a specification of its own: the retry loop of the model  *)
(* gateways, the realtime (Nova Sonic) session with its two hosting        *)
(* handlers, the AG-UI protocol handler with the coordinator agent, the    *)
(* two stream projectors and their read model, the request handlers of the *)
(* function-per-endpoint deployment, the audio routes of the always-on API *)
(* with its exception handlers, and the agent's session and long-term      *)
(* memory.                                                                 *)
(***************************************************************************)
EXTENDS Integers, Sequences, FiniteSets, TLC

\* The writer processes (Lambda invocations / service workers) that share
\* the event store table.
Procs == {"w1", "w2"}

\* Total number of use-case executions started in one behaviour of Spec.
MaxOps == 4

\* Total number of aggregate commands issued in one behaviour of SpecAggregate.
MaxCmds == 5

VARIABLES
    store,      \* event store table, one aggregate: sort key -> item
    created,    \* the aggregate id has been handed out by AudioFile.create
    nops,       \* use-case executions started so far (also seeds event ids)
    pc,         \* per process: position in the running use case
    agg,        \* per process: the in-memory AudioFile it holds
    call,       \* per process: the append_events call in progress
    outcome,    \* per process: how its last operation ended
    ncmds,      \* commands issued by the aggregate client
    lastCmd,    \* last command issued by the aggregate client
    sinceSave,  \* per process: "clean" when nothing was commanded since a
                \* successful save of the held aggregate
    retry,      \* the invoke_with_retry call of a model gateway
    sess,       \* one realtime (Nova Sonic) session and its hosting handler
    agui,       \* one AG-UI run of the protocol handler
    proj,       \* the read model table and the change records delivered to a projector
    http,       \* the requests the function-per-endpoint handlers have answered
    api,        \* the requests the always-on API has answered
    mem         \* session memory and long-term memory of one session, and the coordinator's turn

vars == <<store, created, nops, pc, agg, call, outcome, ncmds, lastCmd, sinceSave,
          retry, sess, agui, proj, http, api, mem>>

-----------------------------------------------------------------------------
(* ProcessingStatus *)

PENDING == "pending"
PROCESSING == "processing"
COMPLETED == "completed"
FAILED == "failed"

(* Domain events.  id stands for the event's uuid4 event_id: events made by  *)
(* different executions differ.                                            *)

Ev(type, code, id) == [type |-> type, code |-> code, id |-> id]

(* Identifiers.  A uuid and its str() form are different values: str(u)   *)
(* never equals u, and nothing in the code parses the string back.        *)
UUID(n) == [uuid |-> n]
Str(v) == IF "uuid" \in DOMAIN v THEN [str |-> v.uuid] ELSE v

\* Python's None
None == [none |-> TRUE]

\* the identity of the one audio file of the model: id, owner and object key
AudioId == UUID(1)
UserId == UUID(2)
S3Key == "test.wav"

\* AudioCreated carries the identity of the aggregate
AudioCreated(id) ==
    Ev("AudioCreated", "", id) @@
    [audio_id |-> AudioId, user_id |-> UserId, s3_key |-> S3Key]

-----------------------------------------------------------------------------
(* AudioFile aggregate *)

\* cls(): the dataclass defaults
NewAudioFile ==
    [status |-> PENDING, version |-> 0, uncommitted |-> <<>>,
     id |-> UUID(0), user_id |-> None, s3_key |-> ""]

\* no aggregate object held
NoAgg ==
    [status |-> "none", version |-> 0, uncommitted |-> <<>>,
     id |-> None, user_id |-> None, s3_key |-> ""]

\* _on_audio_created copies the identity fields of the event as they are
OnAudioCreated(a, e) ==
    [a EXCEPT !.id = e.audio_id, !.user_id = e.user_id, !.s3_key = e.s3_key]

\* _when: dispatch to the _on_<event> handler; handlers of the two
\* non-transition events leave the status alone
When(a, e) ==
    LET b == [a EXCEPT !.status =
                CASE e.type = "AudioCreated" -> PENDING
                  [] e.type = "AudioProcessingStarted" -> PROCESSING
                  [] e.type = "AudioProcessingCompleted" -> COMPLETED
                  [] e.type = "AudioProcessingFailed" -> FAILED
                  [] OTHER -> a.status]
    IN  IF e.type = "AudioCreated" THEN OnAudioCreated(b, e) ELSE b

\* _apply: _when, then append to the uncommitted buffer
Apply(a, e) ==
    LET b == When(a, e) IN [b EXCEPT !.uncommitted = Append(b.uncommitted, e)]

\* AudioFile.create
Create(id) == Apply(NewAudioFile, AudioCreated(id))

\* A command returns the aggregate after it and the error it raised.
Accepted(a) == [agg |-> a, err |-> "none"]
Refused(a) == [agg |-> a, err |-> "InvalidStateError"]

StartProcessingUnguarded(a, id) ==
    Accepted(Apply(a, Ev("AudioProcessingStarted", "", id)))

StartProcessing(a, id) ==
    IF a.status # PENDING
    THEN Refused(a)
    ELSE Accepted(Apply(a, Ev("AudioProcessingStarted", "", id)))

CompleteTranscription(a, id) ==
    IF a.status # PROCESSING
    THEN Refused(a)
    ELSE Accepted(Apply(a, Ev("TranscriptionCompleted", "", id)))

AnalyzeSentiment(a, id) ==
    IF a.status # PROCESSING
    THEN Refused(a)
    ELSE Accepted(Apply(a, Ev("SentimentAnalyzed", "", id)))

CompleteProcessing(a, id) ==
    IF a.status # PROCESSING
    THEN Refused(a)
    ELSE Accepted(Apply(a, Ev("AudioProcessingCompleted", "", id)))

FailProcessing(a, code, id) ==
    Accepted(Apply(a, Ev("AudioProcessingFailed", code, id)))

\* mark_events_as_committed
MarkEventsAsCommitted(a) ==
    [a EXCEPT !.version = a.version + Len(a.uncommitted), !.uncommitted = <<>>]

\* reconstitute: fold _when over the stored events, taking each one's version
RECURSIVE Replay(_, _)
Replay(a, events) ==
    IF events = <<>> THEN a
    ELSE Replay([When(a, Head(events).event) EXCEPT !.version = Head(events).version],
                Tail(events))

Reconstitute(events) == Replay(NewAudioFile, events)

-----------------------------------------------------------------------------
(* DynamoDBEventStore *)

SetMax(S) == CHOOSE x \in S : \A y \in S : y <= x
SetMin(S) == CHOOSE x \in S : \A y \in S : x <= y

RECURSIVE Ascending(_)
Ascending(S) == IF S = {} THEN <<>> ELSE <<SetMin(S)>> \o Ascending(S \ {SetMin(S)})

\* the event fields that hold a uuid
UuidFields == {"audio_id", "user_id"}

\* _serialize_event builds event_data from the event's fields, a uuid as str()
EventData(event) ==
    [k \in DOMAIN event |-> IF k \in UuidFields THEN Str(event[k]) ELSE event[k]]

\* _serialize_event: sk is v<version, 10 digits>, which sorts as the number
SerializeEvent(event, version) ==
    [sk |-> version, version |-> version, event |-> EventData(event)]

\* _deserialize_event
DeserializeEvent(item) == [event |-> item.event, version |-> item.version]

\* put_item without a condition expression: an item with the same key is replaced
PutItem(st, item) ==
    [k \in DOMAIN st \cup {item.sk} |-> IF k = item.sk THEN item ELSE st[k]]

\* _get_current_version: the version attribute of the item with the highest sk
GetCurrentVersion(st) ==
    IF DOMAIN st = {} THEN 0 ELSE st[SetMax(DOMAIN st)].version

\* get_events: one query, items by ascending sk from v<from_version>
GetEvents(st, from_version) ==
    LET ks == Ascending({k \in DOMAIN st : k >= from_version})
    IN  [j \in 1..Len(ks) |-> DeserializeEvent(st[ks[j]])]

\* the optimistic check of append_events
VersionMatchesOrNewer(current_version, expected_version) ==
    current_version >= expected_version

VersionMatches(current_version, expected_version) ==
    current_version = expected_version

\* the version given to the i-th event (i from 0) of a batch
SkippingVersion(expected_version, i) == expected_version + 2 * i + 1

AssignedVersion(expected_version, i) == expected_version + i + 1

\* the frame of an append_events call
NoCall == [state |-> "none", exp |-> 0, evs |-> <<>>, i |-> 0]

\* append_events, first half: read the current version and compare
AppendRead(p) ==
    /\ call[p].state = "read"
    /\ LET current_version == GetCurrentVersion(store)
       IN  call' = [call EXCEPT ![p].state =
                       IF ~VersionMatches(current_version, call[p].exp) THEN "rejected"
                       ELSE IF call[p].evs = <<>> THEN "done"
                       ELSE "writing"]
    /\ UNCHANGED <<store, created, nops, pc, agg, outcome, ncmds, lastCmd, sinceSave, retry, sess, agui, proj, http, api, mem>>

\* append_events, second half: the batch writer puts the next item.  The
\* puts of batch_writer (BatchWriteItem) are applied one item at a time and
\* not as a transaction, so other processes run between two of them.
AppendPut(p) ==
    /\ call[p].state = "writing"
    /\ LET i == call[p].i
           item == SerializeEvent(call[p].evs[i + 1], AssignedVersion(call[p].exp, i))
       IN  /\ store' = PutItem(store, item)
           /\ call' = [call EXCEPT ![p].i = i + 1,
                                   ![p].state = IF i + 1 = Len(call[p].evs)
                                                THEN "done" ELSE "writing"]
    /\ UNCHANGED <<created, nops, pc, agg, outcome, ncmds, lastCmd, sinceSave, retry, sess, agui, proj, http, api, mem>>

-----------------------------------------------------------------------------
(* DynamoDBAudioRepository *)

\* save: nothing to do without uncommitted events, else append_events with
\* the aggregate's version as the expected version
Save(a) ==
    IF a.uncommitted = <<>>
    THEN [state |-> "done", exp |-> a.version, evs |-> <<>>, i |-> 0]
    ELSE [state |-> "read", exp |-> a.version, evs |-> a.uncommitted, i |-> 0]

\* find_by_id: NoAgg stands for None
FindById(st) ==
    LET events == GetEvents(st, 0)
    IN  IF events = <<>> THEN NoAgg ELSE Reconstitute(events)

-----------------------------------------------------------------------------
(* The other subsystems before anything has been called *)

\* no invoke_with_retry call has been made
NoRetry ==
    [state |-> "idle", attempt |-> 0, calls |-> 0, errs |-> <<>>,
     sleeps |-> <<>>, raised |-> "none"]

\* no client has connected to a realtime hosting handler
NoSession ==
    [hpc |-> "idle", host |-> "none", crossmodal |-> FALSE, started |-> FALSE,
     active |-> FALSE, broken |-> FALSE, sent |-> <<>>, lastSend |-> "none",
     gen |-> "none", yielded |-> <<>>, eof |-> FALSE,
     inLoop |-> "none", outLoop |-> "none", msgs |-> 0, chunks |-> 0,
     clientGone |-> FALSE, endCalled |-> FALSE, afterEnd |-> 0,
     wsClosed |-> FALSE]

\* no AG-UI request has been received
NoRun ==
    [state |-> "idle", agent |-> "none", emitted |-> <<>>,
     tool_calls |-> <<>>, tool_executions |-> <<>>, k |-> 0]

\* no change record has been delivered to a projector
NoRecord == [eventName |-> "none", event_type |-> "none", timestamp |-> 0]

\* the read model table: its items by key, and the number of write calls
EmptyTable == [items |-> <<>>, writes |-> 0]

NoProjector ==
    [handler |-> "none", table |-> EmptyTable, delivered |-> {},
     last |-> NoRecord, n |-> 0]

\* no request has reached a function-per-endpoint handler
NoRequests == [n |-> 0, log |-> <<>>]

\* no request has reached the always-on API
NoApiRequests == [n |-> 0, log |-> <<>>]

\* the session id has not been used: no item of it in either table, no turn
\* and no delete_session in progress
NoMemory ==
    [cpc |-> "idle", turns |-> 0, user_id |-> "none", now |-> 0,
     created |-> FALSE, meta |-> FALSE, messages |-> <<>>, events |-> <<>>,
     request |-> <<>>, context |-> <<>>,
     dpc |-> "idle", queried |-> {}, deletes |-> 0]

-----------------------------------------------------------------------------
Init ==
    /\ store = <<>>
    /\ created = FALSE
    /\ nops = 0
    /\ pc = [p \in Procs |-> "idle"]
    /\ agg = [p \in Procs |-> NoAgg]
    /\ call = [p \in Procs |-> NoCall]
    /\ outcome = [p \in Procs |-> "none"]
    /\ ncmds = 0
    /\ lastCmd = "none"
    /\ sinceSave = [p \in Procs |-> "dirty"]
    /\ retry = NoRetry
    /\ sess = NoSession
    /\ agui = NoRun
    /\ proj = NoProjector
    /\ http = NoRequests
    /\ api = NoApiRequests
    /\ mem = NoMemory

\* an operation of process p ends with result r
Finish(p, r) ==
    /\ pc' = [pc EXCEPT ![p] = "idle"]
    /\ agg' = [agg EXCEPT ![p] = NoAgg]
    /\ call' = [call EXCEPT ![p] = NoCall]
    /\ outcome' = [outcome EXCEPT ![p] = r]

\* an operation of process p goes on to save aggregate a, then continues at next
GoSave(p, a, next) ==
    /\ pc' = [pc EXCEPT ![p] = next]
    /\ agg' = [agg EXCEPT ![p] = a]
    /\ call' = [call EXCEPT ![p] = Save(a)]
    /\ outcome' = [outcome EXCEPT ![p] = "running"]

Returned(p) == call[p].state \in {"done", "rejected"}

-----------------------------------------------------------------------------
(* UploadAudioUseCase.execute *)

UploadStart(p) ==
    /\ pc[p] = "idle"
    /\ nops < MaxOps
    /\ ~created
    /\ nops' = nops + 1
    /\ \E uploaded \in BOOLEAN :
          IF uploaded
          THEN /\ created' = TRUE
               /\ GoSave(p, Create(nops + 1), "u_save")
          ELSE /\ created' = created
               /\ Finish(p, "AudioUploadError")
    /\ UNCHANGED <<store, ncmds, lastCmd, sinceSave, retry, sess, agui, proj, http, api, mem>>

UploadSaved(p) ==
    /\ pc[p] = "u_save"
    /\ Returned(p)
    /\ IF call[p].state = "rejected"
       THEN Finish(p, "AudioUploadError")
       ELSE \E published \in BOOLEAN :
               Finish(p, IF published THEN "ok" ELSE "AudioUploadError")
    /\ UNCHANGED <<store, created, nops, ncmds, lastCmd, sinceSave, retry, sess, agui, proj, http, api, mem>>

-----------------------------------------------------------------------------
(* TranscribeAudioUseCase.execute *)

\* the except-Exception handler: fail_processing with TRANSCRIPTION_ERROR,
\* then save what the aggregate holds uncommitted
TranscribeHandler(p, a, id) ==
    GoSave(p, FailProcessing(a, "TRANSCRIPTION_ERROR", id).agg, "t_fail_save")

\* find_by_id, start_processing, the gateway's transcribe,
\* complete_transcription, complete_processing, up to the call of save
TranscribeStart(p) ==
    /\ pc[p] = "idle"
    /\ nops < MaxOps
    /\ nops' = nops + 1
    /\ LET id == nops + 1
           audio == FindById(store)
           started == StartProcessing(audio, id)
           transcribed == CompleteTranscription(started.agg, id)
           completed == CompleteProcessing(transcribed.agg, id)
       IN  IF audio = NoAgg
           THEN Finish(p, "AudioNotFoundError")
           ELSE IF started.err # "none"
           THEN TranscribeHandler(p, started.agg, id)
           ELSE \E transcribe_ok \in BOOLEAN :
                   IF ~transcribe_ok
                   THEN TranscribeHandler(p, started.agg, id)
                   ELSE IF transcribed.err # "none"
                   THEN TranscribeHandler(p, transcribed.agg, id)
                   ELSE IF completed.err # "none"
                   THEN TranscribeHandler(p, completed.agg, id)
                   ELSE GoSave(p, completed.agg, "t_save")
    /\ UNCHANGED <<store, created, ncmds, lastCmd, sinceSave, retry, sess, agui, proj, http, api, mem>>

\* save returned or raised; publish_batch, mark_events_as_committed
TranscribeSaved(p) ==
    /\ pc[p] = "t_save"
    /\ Returned(p)
    /\ IF call[p].state = "rejected"
       THEN TranscribeHandler(p, agg[p], nops)
       ELSE \E published \in BOOLEAN :
               IF published
               THEN Finish(p, "ok")   \* mark_events_as_committed, object dropped
               ELSE TranscribeHandler(p, agg[p], nops)
    /\ UNCHANGED <<store, created, nops, ncmds, lastCmd, sinceSave, retry, sess, agui, proj, http, api, mem>>

\* the handler's save returned or raised; the handler's publish_batch; the
\* final raise of TranscriptionError
TranscribeFailSaved(p) ==
    /\ pc[p] = "t_fail_save"
    /\ Returned(p)
    /\ IF call[p].state = "rejected"
       THEN Finish(p, "ConcurrencyError")
       ELSE \E published \in BOOLEAN :
               Finish(p, IF published THEN "TranscriptionError" ELSE "PublishError")
    /\ UNCHANGED <<store, created, nops, ncmds, lastCmd, sinceSave, retry, sess, agui, proj, http, api, mem>>

-----------------------------------------------------------------------------
(* DynamoDBAudioRepository.delete *)

DeleteStart(p) ==
    /\ pc[p] = "idle"
    /\ nops < MaxOps
    /\ nops' = nops + 1
    /\ LET audio == FindById(store)
       IN  IF audio = NoAgg
           THEN Finish(p, "false")
           ELSE GoSave(p, FailProcessing(audio, "USER_DELETED", nops + 1).agg, "d_save")
    /\ UNCHANGED <<store, created, ncmds, lastCmd, sinceSave, retry, sess, agui, proj, http, api, mem>>

DeleteSaved(p) ==
    /\ pc[p] = "d_save"
    /\ Returned(p)
    /\ Finish(p, IF call[p].state = "rejected" THEN "ConcurrencyError" ELSE "true")
    /\ UNCHANGED <<store, created, nops, ncmds, lastCmd, sinceSave, retry, sess, agui, proj, http, api, mem>>

-----------------------------------------------------------------------------------------------------------------------------------------------------
(* A caller of the domain model and the repository: it holds one AudioFile *)
(* and issues commands, commits and saves in any order.                    *)

GuardedCommands ==
    {"start_processing", "complete_transcription", "analyze_sentiment",
     "complete_processing"}

\* the single status in which a guarded command is accepted
AcceptedIn(c) == IF c = "start_processing" THEN PENDING ELSE PROCESSING

Command(c, a, id) ==
    CASE c = "start_processing" -> StartProcessing(a, id)
      [] c = "complete_transcription" -> CompleteTranscription(a, id)
      [] c = "analyze_sentiment" -> AnalyzeSentiment(a, id)
      [] c = "complete_processing" -> CompleteProcessing(a, id)
      [] c = "fail_processing" -> FailProcessing(a, "UNKNOWN", id)

ClientCreate(p) ==
    /\ pc[p] = "idle"
    /\ agg[p] = NoAgg
    /\ ~created
    /\ ncmds < MaxCmds
    /\ created' = TRUE
    /\ agg' = [agg EXCEPT ![p] = Create(ncmds + 1)]
    /\ ncmds' = ncmds + 1
    /\ lastCmd' = "create"
    /\ outcome' = [outcome EXCEPT ![p] = "none"]
    /\ sinceSave' = [sinceSave EXCEPT ![p] = "dirty"]
    /\ UNCHANGED <<store, nops, pc, call, retry, sess, agui, proj, http, api, mem>>

ClientCommand(p) ==
    /\ pc[p] = "idle"
    /\ agg[p] # NoAgg
    /\ ncmds < MaxCmds
    /\ \E c \in GuardedCommands \cup {"fail_processing"} :
          LET r == Command(c, agg[p], ncmds + 1)
          IN  /\ agg' = [agg EXCEPT ![p] = r.agg]
              /\ outcome' = [outcome EXCEPT ![p] = r.err]
              /\ lastCmd' = c
    /\ ncmds' = ncmds + 1
    /\ sinceSave' = [sinceSave EXCEPT ![p] = "dirty"]
    /\ UNCHANGED <<store, created, nops, pc, call, retry, sess, agui, proj, http, api, mem>>

ClientMarkCommitted(p) ==
    /\ pc[p] = "idle"
    /\ agg[p] # NoAgg
    /\ agg[p].uncommitted # <<>>
    /\ agg' = [agg EXCEPT ![p] = MarkEventsAsCommitted(agg[p])]
    /\ UNCHANGED <<store, created, nops, pc, call, outcome, ncmds, lastCmd, sinceSave, retry, sess, agui, proj, http, api, mem>>

\* repository.save(audio) is called
ClientSave(p) ==
    /\ pc[p] = "idle"
    /\ agg[p] # NoAgg
    /\ pc' = [pc EXCEPT ![p] = "c_save"]
    /\ call' = [call EXCEPT ![p] = Save(agg[p])]
    /\ UNCHANGED <<store, created, nops, agg, outcome, ncmds, lastCmd, sinceSave, retry, sess, agui, proj, http, api, mem>>

\* repository.save(audio) returns or raises
ClientSaved(p) ==
    /\ pc[p] = "c_save"
    /\ Returned(p)
    /\ pc' = [pc EXCEPT ![p] = "idle"]
    /\ outcome' = [outcome EXCEPT ![p] =
                      IF call[p].state = "rejected" THEN "ConcurrencyError" ELSE "none"]
    /\ sinceSave' = [sinceSave EXCEPT ![p] =
                      IF call[p].state = "done" THEN "clean" ELSE sinceSave[p]]
    /\ call' = [call EXCEPT ![p] = NoCall]
    /\ UNCHANGED <<store, created, nops, agg, ncmds, lastCmd, retry, sess, agui, proj, http, api, mem>>

\* repository.find_by_id: the caller takes the rehydrated object
ClientFindById(p) ==
    /\ pc[p] = "idle"
    /\ FindById(store) # NoAgg
    /\ agg[p] # FindById(store)
    /\ agg' = [agg EXCEPT ![p] = FindById(store)]
    /\ sinceSave' = [sinceSave EXCEPT ![p] = "dirty"]
    /\ UNCHANGED <<store, created, nops, pc, call, outcome, ncmds, lastCmd, retry, sess, agui, proj, http, api, mem>>

ClientNext(p) ==
    \/ AppendRead(p)
    \/ AppendPut(p)
    \/ ClientCreate(p)
    \/ ClientCommand(p)
    \/ ClientMarkCommitted(p)
    \/ ClientSave(p)
    \/ ClientSaved(p)
    \/ ClientFindById(p)

-----------------------------------------------------------------------------
ProcNext(p) ==
    \/ AppendRead(p)
    \/ AppendPut(p)
    \/ UploadStart(p)
    \/ UploadSaved(p)
    \/ TranscribeStart(p)
    \/ TranscribeSaved(p)
    \/ TranscribeFailSaved(p)
    \/ DeleteStart(p)
    \/ DeleteSaved(p)

Next == \E p \in Procs : ProcNext(p)

Spec == Init /\ [][Next]_vars

\* one writer alone
NextSolo == ProcNext("w1")

SpecSolo == Init /\ [][NextSolo]_vars

\* one caller of the domain model and the repository
NextAggregate == ClientNext("w1")

SpecAggregate == Init /\ [][NextAggregate]_vars

-----------------------------------------------------------------------------
(* Model gateway: invoke_with_retry *)

\* the variables of the audio domain, which the other subsystems leave alone
audioVars == <<store, created, nops, pc, agg, call, outcome, ncmds, lastCmd, sinceSave>>

\* the default of the max_retries parameter; no caller passes another value
max_retries == 3

\* error codes of a ClientError that the except clause tells apart;
\* ValidationException stands for every other code
ClientErrorCodes ==
    {"ThrottlingException", "ModelTimeoutException",
     "ServiceUnavailableException", "InternalServerException",
     "ValidationException"}

\* an exception that is not a ClientError (a connection error, a TypeError
\* of json.dumps)
NonClientError == "Exception"

\* what one pass through the try block ends with
InvokeOutcomes == {"ok"} \cup ClientErrorCodes \cup {NonClientError}

\* codes answered with an exponential backoff wait
BackoffCodesAndValidation ==
    {"ThrottlingException", "ServiceUnavailableException",
     "InternalServerException", "ValidationException"}

BackoffCodes ==
    {"ThrottlingException", "ServiceUnavailableException",
     "InternalServerException"}

\* range(max_retries)
InRangeInclusive(attempt) == attempt <= max_retries

InRange(attempt) == attempt < max_retries

\* attempt == max_retries - 1
IsLastAttempt(attempt) == attempt = max_retries - 1

\* (2 ** attempt) + random.uniform(0, 1), in whole seconds: the jitter is
\* below one second
WaitTime(attempt) == 2 ^ attempt

\* the except clauses: the seconds slept (none: <<>>) and whether the error
\* is raised to the caller
Handle(r, attempt) ==
    CASE r \in BackoffCodes ->
            [sleep |-> <<WaitTime(attempt)>>, raise |-> FALSE]
      [] r \in {"ModelTimeoutException", NonClientError} ->
            IF IsLastAttempt(attempt)
            THEN [sleep |-> <<>>, raise |-> TRUE]
            ELSE [sleep |-> <<1>>, raise |-> FALSE]
      [] OTHER -> [sleep |-> <<>>, raise |-> TRUE]

\* the gateway calls invoke_with_retry
InvokeWithRetry ==
    /\ retry.state = "idle"
    /\ retry' = [retry EXCEPT !.state = "running"]
    /\ UNCHANGED <<audioVars, sess, agui, proj, http, api, mem>>

\* one iteration of the loop: the invocation, the except clause and its
\* sleep; after the last iteration the statement behind the loop raises
RetryAttempt ==
    /\ retry.state = "running"
    /\ InRange(retry.attempt)
    /\ \E r \in InvokeOutcomes :
          LET h == Handle(r, retry.attempt)
              called == [retry EXCEPT !.calls = @ + 1]
              failed == [called EXCEPT !.errs = Append(@, r)]
              slept == [failed EXCEPT !.sleeps = @ \o h.sleep,
                                      !.attempt = @ + 1]
          IN  retry' =
                IF r = "ok" THEN [called EXCEPT !.state = "returned"]
                ELSE IF h.raise
                THEN [failed EXCEPT !.state = "raised", !.raised = r]
                ELSE IF InRange(slept.attempt) THEN slept
                ELSE [slept EXCEPT !.state = "raised",
                                   !.raised = "FailedAfterAttempts"]
    /\ UNCHANGED <<audioVars, sess, agui, proj, http, api, mem>>

NextRetry == InvokeWithRetry \/ RetryAttempt

SpecRetry == Init /\ [][NextRetry]_vars

-----------------------------------------------------------------------------
(* Realtime session: NovaSonicStreamHandler and its two hosting handlers *)

\* client messages one connection delivers to the input loop
MaxMsgs == 2

\* chunks the service puts on the output stream of one session
MaxChunks == 2

\* "wait" is nova_sonic_handler (asyncio.wait, FIRST_COMPLETED), "gather" is
\* nova_sonic_websocket_handler (asyncio.gather)
Hosts == {"wait", "gather"}

\* what websocket.iter_bytes hands the input loop of a host: PCM bytes, a
\* JSON text with one of the keys the loop looks for, any other text, or the
\* end of the client connection; the gather host treats everything as audio
ClientMessages(h) ==
    IF h = "wait"
    THEN {"bytes", "text", "tool_result", "end", "other", "disconnect"}
    ELSE {"bytes", "disconnect"}

\* what the output stream does when asked for the next chunk: a chunk that
\* parses to an event other than sessionEnd, a sessionEnd chunk, a chunk
\* that is not JSON or parses to None, the end of the stream, or an error
StreamChunks == {"event", "sessionEnd", "unparsed", "eof", "error"}

\* the event each send method writes
EventOf(m) ==
    CASE m = "bytes" -> "audioInput"
      [] m = "text" -> "textInput"
      [] m = "tool_result" -> "toolResult"

\* _send_event writes only for an active session
SendAlwaysAllowed(s) == TRUE

SendAllowed(s) == s.active

\* _send_event: RuntimeError for an inactive session, otherwise one write to
\* the input stream; a write that failed once (ok = FALSE) fails from then on
SendEvent(s, type, ok) ==
    LET t == [s EXCEPT !.afterEnd = IF s.endCalled THEN @ + 1 ELSE @]
    IN  IF ~SendAllowed(t) THEN [t EXCEPT !.lastSend = "RuntimeError"]
        ELSE IF t.broken \/ ~ok
        THEN [t EXCEPT !.lastSend = "WriteError", !.broken = TRUE]
        ELSE [t EXCEPT !.lastSend = "ok", !.sent = Append(@, type)]

\* receive_events leaves its loop after yielding this event
StopsAfterNothing(type) == FALSE

StopsAfter(type) == type = "sessionEnd"

\* the output loop of the host leaves its async for after relaying this event
ConsumerNeverBreaks(h, type) == FALSE

ConsumerBreaks(h, type) == h = "wait" /\ type = "sessionEnd"

\* how a loop of the host ends when an exception reaches it: _input_loop and
\* _output_loop catch and log it, input_task and output_task let it escape
LoopEndsOnError(h) == IF h = "wait" THEN "done" ELSE "failed"

\* the host leaves the relay phase: asyncio.wait returns when one loop has
\* finished; asyncio.gather returns when both have, or raises when one fails
RelayOver(s) ==
    IF s.host = "wait"
    THEN s.inLoop # "run" \/ s.outLoop # "run"
    ELSE \/ s.inLoop # "run" /\ s.outLoop # "run"
         \/ "failed" \in {s.inLoop, s.outLoop}

\* a loop of the host can still take a step: until the host leaves the relay
\* phase, and in the gather host after it too, as nothing cancels the task
LoopRuns(s, loop) ==
    /\ loop = "run"
    /\ \/ s.hpc = "relay"
       \/ s.host = "gather" /\ s.hpc \in {"teardown", "ending", "crashed"}

\* the hosting handler up to the start of the two loops: accept, receive the
\* config, start_session (open the duplex stream, mark the session active,
\* send sessionStart); an exception takes the handler to its finally block
AcceptConnection ==
    /\ sess.hpc = "idle"
    /\ \E h \in Hosts, cm \in BOOLEAN, opened \in BOOLEAN, ok \in BOOLEAN :
          LET s0 == [sess EXCEPT !.host = h, !.crossmodal = cm]
              s1 == SendEvent([s0 EXCEPT !.active = TRUE], "sessionStart", ok)
          IN  sess' =
                IF ~opened THEN [s0 EXCEPT !.hpc = "teardown"]
                ELSE IF s1.lastSend # "ok" THEN [s1 EXCEPT !.hpc = "teardown"]
                ELSE [s1 EXCEPT !.hpc = "relay", !.started = TRUE,
                                !.gen = "created",
                                !.inLoop = "run", !.outLoop = "run"]
    /\ UNCHANGED <<audioVars, retry, agui, proj, http, api, mem>>

\* one iteration of the input loop: the next client message and the send
\* method it leads to
InputLoopStep ==
    /\ LoopRuns(sess, sess.inLoop)
    /\ sess.msgs < MaxMsgs
    /\ \E m \in ClientMessages(sess.host), ok \in BOOLEAN :
          LET s0 == [sess EXCEPT !.msgs = @ + 1]
              s1 == SendEvent(s0, EventOf(m), ok)
          IN  sess' =
                CASE m \in {"bytes", "text", "tool_result"} ->
                        IF s1.lastSend = "ok" THEN s1
                        ELSE [s1 EXCEPT !.inLoop = LoopEndsOnError(s1.host)]
                  [] m = "end" -> [s0 EXCEPT !.inLoop = "done"]
                  [] m = "other" -> s0
                  [] m = "disconnect" ->
                        [s0 EXCEPT !.inLoop = "done", !.clientGone = TRUE]
    /\ UNCHANGED <<audioVars, retry, agui, proj, http, api, mem>>

\* the output loop asks receive_events for the next event: the generator
\* reads chunks until one parses to an event, yields it and stays suspended
\* at the yield while the loop relays the event to the client
OutputLoopStep ==
    /\ LoopRuns(sess, sess.outLoop)
    /\ sess.gen \in {"created", "running"}
    /\ sess.chunks < MaxChunks
    /\ \E c \in StreamChunks, delivered \in BOOLEAN :
          LET s0 == [sess EXCEPT !.chunks = @ + 1, !.gen = "running"]
              raised == [s0 EXCEPT !.gen = "raised",
                                   !.outLoop = LoopEndsOnError(s0.host)]
              y == [s0 EXCEPT !.yielded = Append(@, c), !.gen = "atYield"]
          IN  sess' =
                IF sess.gen = "created" /\ ~sess.active THEN raised
                ELSE CASE c = "unparsed" -> s0
                  [] c = "eof" ->
                        [s0 EXCEPT !.gen = "ended", !.eof = TRUE,
                                   !.outLoop = "done"]
                  [] c = "error" -> raised
                  [] c \in {"event", "sessionEnd"} ->
                        IF sess.clientGone \/ ~delivered
                        THEN [y EXCEPT !.clientGone = TRUE,
                                       !.outLoop = LoopEndsOnError(y.host)]
                        ELSE IF ConsumerBreaks(y.host, c)
                        THEN [y EXCEPT !.outLoop = "done"]
                        ELSE y
    /\ UNCHANGED <<audioVars, retry, agui, proj, http, api, mem>>

\* the output loop asks for the event after the one it relayed: the
\* generator resumes behind its yield
OutputResume ==
    /\ LoopRuns(sess, sess.outLoop)
    /\ sess.gen = "atYield"
    /\ sess' =
          IF StopsAfter(sess.yielded[Len(sess.yielded)])
          THEN [sess EXCEPT !.active = FALSE, !.gen = "ended",
                            !.outLoop = "done"]
          ELSE [sess EXCEPT !.gen = "running"]
    /\ UNCHANGED <<audioVars, retry, agui, proj, http, api, mem>>

\* nova_sonic_handler: asyncio.wait returns, the pending loop is cancelled
AsyncioWait ==
    /\ sess.hpc = "relay"
    /\ sess.host = "wait"
    /\ RelayOver(sess)
    /\ sess' = [sess EXCEPT
                  !.hpc = "teardown",
                  !.inLoop = IF @ = "run" THEN "cancelled" ELSE @,
                  !.outLoop = IF @ = "run" THEN "cancelled" ELSE @]
    /\ UNCHANGED <<audioVars, retry, agui, proj, http, api, mem>>

\* nova_sonic_websocket_handler: asyncio.gather returns or raises; a loop
\* that has not finished goes on running
AsyncioGather ==
    /\ sess.hpc = "relay"
    /\ sess.host = "gather"
    /\ RelayOver(sess)
    /\ sess' = [sess EXCEPT !.hpc = "teardown"]
    /\ UNCHANGED <<audioVars, retry, agui, proj, http, api, mem>>

\* finally: handler.end_session(); an exception of the sessionEnd write
\* leaves the finally block before websocket.close()
EndSession ==
    /\ sess.hpc = "teardown"
    /\ \E ok \in BOOLEAN :
          LET s1 == SendEvent(sess, "sessionEnd", ok)
          IN  sess' =
                IF ~sess.active
                THEN [sess EXCEPT !.endCalled = TRUE, !.hpc = "ending"]
                ELSE IF s1.lastSend = "ok"
                THEN [s1 EXCEPT !.active = FALSE, !.endCalled = TRUE,
                                !.hpc = "ending"]
                ELSE [s1 EXCEPT !.endCalled = TRUE, !.hpc = "crashed"]
    /\ UNCHANGED <<audioVars, retry, agui, proj, http, api, mem>>

\* finally: websocket.close()
CloseConnection ==
    /\ sess.hpc = "ending"
    /\ sess' = [sess EXCEPT !.hpc = "closed", !.wsClosed = TRUE]
    /\ UNCHANGED <<audioVars, retry, agui, proj, http, api, mem>>

NextSession ==
    \/ AcceptConnection
    \/ InputLoopStep
    \/ OutputLoopStep
    \/ OutputResume
    \/ AsyncioWait
    \/ AsyncioGather
    \/ EndSession
    \/ CloseConnection

SpecSession == Init /\ [][NextSession]_vars

-----------------------------------------------------------------------------
(* AG-UI protocol handler and the coordinator it calls *)

\* tool executions in the result of one turn
MaxTools == 2

\* the agent behind the handler: NovaCoordinatorAgent, whose result carries
\* the key tool_calls, or an agent whose result carries tool_executions, the
\* key handle_request reads
Agents == {"coordinator", "reporting"}

\* _execute_tools: the tools in the order the keyword checks append them
ToolNames ==
    <<"transcribe_audio", "analyze_video", "search_knowledge",
      "generate_embeddings">>

\* _execute_tools for an input that holds a keyword of the tools in words
ExecuteTools(words) ==
    LET Selected(t) == t \in words IN SelectSeq(ToolNames, Selected)

\* a tool execution as handle_request reads it: its arguments and result
\* are absent (or empty), serializable by json.dumps, or not serializable
ToolExecutions ==
    [arguments : {"none", "ok", "unserializable"},
     result : {"none", "ok", "unserializable"}]

\* a json.dumps of the tool execution raises
DumpsRaises(x) == "unserializable" \in {x.arguments, x.result}

\* sequences of at most n tool executions
ExecutionLists(n) == UNION {[1..m -> ToolExecutions] : m \in 0..n}

\* the except clause of handle_request: the run ends with a RUN_ERROR event
OnErrorSilent(emitted) == emitted

OnError(emitted) == Append(emitted, "RUN_ERROR")

\* the events of one tool execution, up to the first json.dumps that raises
ToolCallEvents(x) ==
    <<"TOOL_CALL_START">>
    \o (IF x.arguments = "ok" THEN <<"TOOL_CALL_ARGS">> ELSE <<>>)
    \o (IF DumpsRaises(x) THEN <<>> ELSE <<"TOOL_CALL_END">>)

\* handle_request up to the call of the agent: no user message ends the
\* request with one RUN_ERROR; otherwise RUN_STARTED and TEXT_MESSAGE_START
HandleRequest ==
    /\ agui.state = "idle"
    /\ \E a \in Agents, user_message \in BOOLEAN :
          agui' =
            IF ~user_message
            THEN [agui EXCEPT !.state = "rejected", !.agent = a,
                              !.emitted = <<"RUN_ERROR">>]
            ELSE [agui EXCEPT !.state = "started", !.agent = a,
                              !.emitted = <<"RUN_STARTED", "TEXT_MESSAGE_START">>]
    /\ UNCHANGED <<audioVars, retry, sess, proj, http, api, mem>>

\* await self._agent.process(...): the coordinator raises, or returns its
\* result dict
AgentProcess ==
    /\ agui.state = "started"
    /\ \/ agui' = [agui EXCEPT !.state = "failed",
                               !.emitted = OnError(@)]
       \/ /\ agui.agent = "coordinator"
          /\ \E words \in SUBSET {ToolNames[i] : i \in 1..Len(ToolNames)} :
                agui' = [agui EXCEPT !.state = "tools",
                                     !.tool_calls = ExecuteTools(words)]
       \/ /\ agui.agent = "reporting"
          /\ \E xs \in ExecutionLists(MaxTools) :
                agui' = [agui EXCEPT !.state = "tools",
                                     !.tool_executions = xs]
    /\ UNCHANGED <<audioVars, retry, sess, proj, http, api, mem>>

\* one iteration of the loop over result["tool_executions"]
EmitToolCall ==
    /\ agui.state = "tools"
    /\ agui.k < Len(agui.tool_executions)
    /\ LET x == agui.tool_executions[agui.k + 1]
           out == agui.emitted \o ToolCallEvents(x)
       IN  agui' =
             IF DumpsRaises(x)
             THEN [agui EXCEPT !.state = "failed", !.emitted = OnError(out)]
             ELSE [agui EXCEPT !.k = @ + 1, !.emitted = out]
    /\ UNCHANGED <<audioVars, retry, sess, proj, http, api, mem>>

\* behind the loop: the response as one delta, the end of the message and
\* of the run
FinishRun ==
    /\ agui.state = "tools"
    /\ agui.k = Len(agui.tool_executions)
    /\ agui' = [agui EXCEPT
                  !.state = "finished",
                  !.emitted = @ \o <<"TEXT_MESSAGE_CONTENT",
                                     "TEXT_MESSAGE_END", "RUN_FINISHED">>]
    /\ UNCHANGED <<audioVars, retry, sess, proj, http, api, mem>>

NextAgUi == HandleRequest \/ AgentProcess \/ EmitToolCall \/ FinishRun

SpecAgUi == Init /\ [][NextAgUi]_vars

-----------------------------------------------------------------------------
(* Stream Projector: the two lambda_handlers over the event store's change  *)
(* stream and the read model table they write.  A change record carries the *)
(* kind of change, the event type of the new image and its timestamp; one   *)
(* subject (aggregate / audio_url) is modelled, so the timestamp is also    *)
(* the version order of its records.  updated_at / processed_at from        *)
(* datetime.utcnow() are the wall clock of the delivery and are left out    *)
(* of the rows: no two deliveries agree on them.                            *)

MaxDeliveries == 3
MaxTs == 2

Projectors == {"handlers", "cdk"}
HashSeeds == {0, 1}

ChangeRecords ==
    [eventName : {"INSERT", "MODIFY", "REMOVE"},
     event_type : {"TranscriptionCompleted", "AudioTranscribed", "SearchPerformed"},
     timestamp : 1..MaxTs]

\* table.put_item(Item=...): the item replaces whatever the key held
put_item(t, key, item) ==
    [items |-> [k \in DOMAIN t.items \cup {key} |->
                   IF k = key THEN item ELSE t.items[k]],
     writes |-> t.writes + 1]

\* table.update_item(Key=..., UpdateExpression='ADD <attr> :inc'), :inc = 1
update_item(t, key) ==
    [items |-> [k \in DOMAIN t.items \cup {key} |->
                   IF k # key THEN t.items[k]
                   ELSE IF key \in DOMAIN t.items
                        THEN [count |-> t.items[key].count + 1]
                        ELSE [count |-> 1]],
     writes |-> t.writes + 1]

\* hash(audio_url) % 1000000: str hashes are salted per interpreter process,
\* so the same url gives one number within a process and may give another
\* in the next one
Hash(seed) == seed

\* timestamp[:10]: the day of the timestamp, two timestamps to the day
DateKey(timestamp) == (timestamp + 1) \div 2

\* handlers/projector: TranscriptionCompleted -> the single LATEST row
project_transcription(t, r) ==
    put_item(t, [pk |-> <<"TRANSCRIPTION", 0>>, sk |-> <<"LATEST", 0>>],
             [created_at |-> r.timestamp])

process_insert(t, r) ==
    IF r.event_type = "TranscriptionCompleted"
    THEN project_transcription(t, r)
    ELSE t

\* cdk/handlers/projector: AudioTranscribed -> one row per timestamp
project_audio_transcription(t, r, seed) ==
    put_item(t, [pk |-> <<"AUDIO", Hash(seed)>>,
                 sk |-> <<"TRANSCRIPTION", r.timestamp>>],
             [processed_at |-> r.timestamp])

\* cdk/handlers/projector: SearchPerformed -> the counter of the day
project_search_stats(t, r) ==
    update_item(t, [pk |-> <<"STATS#SEARCH", 0>>,
                    sk |-> <<"DAILY", DateKey(r.timestamp)>>])

process_event(t, r, seed) ==
    CASE r.event_type = "AudioTranscribed" -> project_audio_transcription(t, r, seed)
      [] r.event_type = "SearchPerformed" -> project_search_stats(t, r)
      [] OTHER -> t

\* the body of the loop over event['Records'] in each lambda_handler
ProcessRecord(h, t, r, seed) ==
    IF h = "handlers"
    THEN IF r.eventName = "INSERT" THEN process_insert(t, r) ELSE t
    ELSE IF r.eventName \in {"INSERT", "MODIFY"} THEN process_event(t, r, seed) ELSE t

\* the projector after lambda_handler h has processed record r
Deliver(h, r, seed) ==
    [handler |-> h,
     table |-> ProcessRecord(h, proj.table, r, seed),
     delivered |-> proj.delivered \cup {r},
     last |-> r,
     n |-> proj.n + 1]

\* src/handlers/projector/handler.py lambda_handler, one record
ProjectorLambdaHandler ==
    /\ proj.handler \in {"none", "handlers"}
    /\ proj.n < MaxDeliveries
    /\ \E r \in ChangeRecords : proj' = Deliver("handlers", r, 0)
    /\ UNCHANGED <<audioVars, retry, sess, agui, http, api, mem>>

\* infra/cdk/handlers/projector/handler.py lambda_handler, one record, in
\* the interpreter process the invocation runs in
CdkProjectorLambdaHandler ==
    /\ proj.handler \in {"none", "cdk"}
    /\ proj.n < MaxDeliveries
    /\ \E r \in ChangeRecords, seed \in HashSeeds : proj' = Deliver("cdk", r, seed)
    /\ UNCHANGED <<audioVars, retry, sess, agui, http, api, mem>>

NextProjector == ProjectorLambdaHandler \/ CdkProjectorLambdaHandler

SpecProjector == Init /\ [][NextProjector]_vars

-----------------------------------------------------------------------------
(* Request handlers of the function-per-endpoint deployment                 *)
(* (src/handlers/<name>/handler.py lambda_handler).  A request is the       *)
(* event's body, whether its path and method match a route, and whether     *)
(* the service behind the route raises.                                     *)

MaxRequests == 2

\* event['body']: no body, a string that is not JSON, a JSON object without
\* the fields the route requires, a JSON object with them
Bodies == {"absent", "invalid", "incomplete", "complete"}
Routes == {"known", "unknown"}
Services == {"ok", "raises"}

\* response(status_code, body)
response(status_code) == [statusCode |-> status_code, raised |-> "none"]

\* an exception leaves lambda_handler: the function returns no response
Escapes(exception) == [statusCode |-> 0, raised |-> exception]

\* handle_<route>(body): the required fields, then the service
HandleRoute(body, service) ==
    IF body \in {"absent", "incomplete"} THEN response(400)
    ELSE IF service = "raises" THEN response(500)
    ELSE response(200)

\* the try block of lambda_handler: routing, and except Exception -> 500
Routing(body, route, service) ==
    IF route = "unknown" THEN response(404) ELSE HandleRoute(body, service)

\* agent, video, search: json.loads(event.get('body', '{}')) stands before
\* the try block
ParseBeforeTry(body, route, service) ==
    IF body = "invalid" THEN Escapes("JSONDecodeError")
    ELSE Routing(body, route, service)

\* audio: json.loads inside its own try, except json.JSONDecodeError -> 400
ParseGuarded(body, route, service) ==
    IF body = "invalid" THEN response(400)
    ELSE Routing(body, route, service)

\* upload: the method first, json.loads inside the try block of the POST
\* branch, except json.JSONDecodeError -> 400
ParseInPost(body, route, service) ==
    IF route = "unknown" THEN response(405)
    ELSE IF body = "invalid" THEN response(400)
    ELSE HandleRoute(body, service)

\* the requests answered, after handler h has answered one more
Answer(h, body, res) ==
    [n |-> http.n + 1,
     log |-> Append(http.log, [handler |-> h, body |-> body, response |-> res])]

AgentLambdaHandler ==
    /\ http.n < MaxRequests
    /\ \E b \in Bodies, r \in Routes, s \in Services :
          http' = Answer("agent", b, ParseBeforeTry(b, r, s))
    /\ UNCHANGED <<audioVars, retry, sess, agui, proj, api, mem>>

VideoLambdaHandler ==
    /\ http.n < MaxRequests
    /\ \E b \in Bodies, r \in Routes, s \in Services :
          http' = Answer("video", b, ParseBeforeTry(b, r, s))
    /\ UNCHANGED <<audioVars, retry, sess, agui, proj, api, mem>>

SearchLambdaHandler ==
    /\ http.n < MaxRequests
    /\ \E b \in Bodies, r \in Routes, s \in Services :
          http' = Answer("search", b, ParseBeforeTry(b, r, s))
    /\ UNCHANGED <<audioVars, retry, sess, agui, proj, api, mem>>

AudioLambdaHandler ==
    /\ http.n < MaxRequests
    /\ \E b \in Bodies, r \in Routes, s \in Services :
          http' = Answer("audio", b, ParseGuarded(b, r, s))
    /\ UNCHANGED <<audioVars, retry, sess, agui, proj, api, mem>>

UploadLambdaHandler ==
    /\ http.n < MaxRequests
    /\ \E b \in Bodies, r \in Routes, s \in Services :
          http' = Answer("upload", b, ParseInPost(b, r, s))
    /\ UNCHANGED <<audioVars, retry, sess, agui, proj, api, mem>>

NextHandlers ==
    \/ AgentLambdaHandler
    \/ VideoLambdaHandler
    \/ SearchLambdaHandler
    \/ AudioLambdaHandler
    \/ UploadLambdaHandler

SpecHandlers == Init /\ [][NextHandlers]_vars

-----------------------------------------------------------------------------
(* The always-on API: the audio routes, the exception each use case lets    *)
(* out of execute, and the exception handlers registered on the app.  The   *)
(* outcomes of the awaited collaborators are the inputs of a request.       *)

MaxApiRequests == 2

\* error_handlers: the status of the handler registered for a class.  The
\* AudioNotFoundError registered is the class of get_audio
error_handlers ==
    [c \in {"get_audio.AudioNotFoundError", "TranscriptionError",
            "AudioUploadError", "ConcurrencyError", "Exception"} |->
        CASE c = "get_audio.AudioNotFoundError" -> 404
          [] c = "ConcurrencyError" -> 409
          [] OTHER -> 500]

\* add_exception_handler: the handler of the exception's class, else the one
\* of its base class Exception; 200 when the route returns
StatusCode(exc) ==
    IF exc = "none" THEN 200
    ELSE IF exc \in DOMAIN error_handlers THEN error_handlers[exc]
    ELSE error_handlers["Exception"]

\* what execute lets out, and whether the event store raised a conflict
Raises(exc, conflict) == [raised |-> exc, conflict |-> conflict]

\* UploadAudioUseCase.execute: upload, create, save, publish_batch inside one
\* try whose except Exception raises AudioUploadError.  The save of the new
\* aggregate conflicts when the stream of its id is not empty.
UploadExecute(uploaded, collides, published) ==
    IF ~uploaded THEN Raises("AudioUploadError", FALSE)
    ELSE IF collides THEN Raises("AudioUploadError", TRUE)
    ELSE IF ~published THEN Raises("AudioUploadError", FALSE)
    ELSE Raises("none", FALSE)

\* GetAudioUseCase.execute
GetExecute(found) ==
    IF found THEN Raises("none", FALSE)
    ELSE Raises("get_audio.AudioNotFoundError", FALSE)

\* the except Exception clause of TranscribeAudioUseCase.execute:
\* fail_processing, save, publish_batch, raise TranscriptionError.  Its save
\* conflicts when the stream has moved past the version the aggregate was
\* loaded at.
TranscribeHandle(moved, published, conflict) ==
    IF moved THEN Raises("ConcurrencyError", TRUE)
    ELSE IF ~published THEN Raises("Exception", conflict)
    ELSE Raises("TranscriptionError", conflict)

\* TranscribeAudioUseCase.execute.  moved: another writer appended after the
\* load; a successful save of the try block moves the stream as well, since
\* save leaves the aggregate's version where it was.
TranscribeExecute(found, pending, transcribed, moved, published, handler_published) ==
    IF ~found THEN Raises("transcribe_audio.AudioNotFoundError", FALSE)
    ELSE IF ~pending \/ ~transcribed
    THEN TranscribeHandle(moved, handler_published, FALSE)
    ELSE IF moved THEN TranscribeHandle(TRUE, handler_published, TRUE)
    ELSE IF ~published THEN TranscribeHandle(TRUE, handler_published, FALSE)
    ELSE Raises("none", FALSE)

\* the requests answered, after a route has been served with outcome r
Serve(route, r) ==
    [n |-> api.n + 1,
     log |-> Append(api.log, [route |-> route, raised |-> r.raised,
                              conflict |-> r.conflict,
                              status_code |-> StatusCode(r.raised)])]

\* POST /api/v1/audio/
upload_audio ==
    /\ api.n < MaxApiRequests
    /\ \E uploaded, collides, published \in BOOLEAN :
          api' = Serve("upload", UploadExecute(uploaded, collides, published))
    /\ UNCHANGED <<audioVars, retry, sess, agui, proj, http, mem>>

\* GET /api/v1/audio/{audio_id}
get_audio ==
    /\ api.n < MaxApiRequests
    /\ \E found \in BOOLEAN : api' = Serve("get", GetExecute(found))
    /\ UNCHANGED <<audioVars, retry, sess, agui, proj, http, mem>>

\* POST /api/v1/audio/{audio_id}/transcribe
transcribe_audio ==
    /\ api.n < MaxApiRequests
    /\ \E found, pending, transcribed, moved, published, handler_published \in BOOLEAN :
          api' = Serve("transcribe",
                       TranscribeExecute(found, pending, transcribed, moved,
                                         published, handler_published))
    /\ UNCHANGED <<audioVars, retry, sess, agui, proj, http, mem>>

NextApi == upload_audio \/ get_audio \/ transcribe_audio

SpecApi == Init /\ [][NextApi]_vars

-----------------------------------------------------------------------------
(* Agent memory: DynamoDBSessionMemory, DynamoDBLongTermMemory and the      *)
(* coordinator's process, for one session id.  datetime.utcnow() is a clock  *)
(* that has advanced at every call; an utterance is named by a number, the   *)
(* user input of turn t by 2t - 1 and the response by 2t.                    *)

MaxTurns == 27
MaxDeletes == 1

\* delete_session is explored while the session has had at most this many turns
MaxTurnsBeforeDelete == 1

\* the default of get_history's limit; process passes no other
history_limit == 50

\* history[-10:] of _generate_response
recent_messages == 10

\* the limit _get_relevant_context passes to get_recent_events
context_limit == 5

UserIds == {"none", "u1"}

\* the first n elements of a sequence (Limit=n of a query)
Limit(s, n) == SubSeq(s, 1, IF Len(s) < n THEN Len(s) ELSE n)

\* s[-n:]
Last(s, n) == SubSeq(s, IF Len(s) > n THEN Len(s) - n + 1 ELSE 1, Len(s))

RECURSIVE Reverse(_)
Reverse(s) == IF s = <<>> THEN <<>> ELSE Append(Reverse(Tail(s)), Head(s))

\* get_history: the MESSAGE# items by ascending sort key, the first `limit`
get_history(messages, limit) ==
    LET items == Limit(messages, limit)
    IN  [i \in 1..Len(items) |-> [role |-> items[i].role,
                                  content |-> items[i].content,
                                  timestamp |-> items[i].sk]]

\* store_event: the item put; gsi1pk only when a user_id is passed
EventItem(aggregate_id, event_type, data, user_id, now) ==
    [sk |-> now, aggregate_id |-> aggregate_id, event_type |-> event_type,
     data |-> data, gsi1pk |-> user_id]

\* get_recent_events: query of index gsi1 by gsi1pk, newest first, the first
\* `limit`.  An item without gsi1pk is not in the index.
get_recent_events(events, user_id, limit) ==
    Limit(Reverse(SelectSeq(events, LAMBDA e : e.gsi1pk = user_id)), limit)

\* _get_relevant_context: the user inputs of the ConversationTurn events
get_relevant_context(events, user_id) ==
    IF user_id = "none" THEN <<>>
    ELSE LET recent == SelectSeq(get_recent_events(events, user_id, context_limit),
                                 LAMBDA e : e.event_type = "ConversationTurn")
         IN  [i \in 1..Len(recent) |-> recent[i].data]

\* _generate_response: the messages of the chat request
generate_response(user_input, history) ==
    LET last == Last(history, recent_messages)
    IN  [i \in 1..Len(last) |-> [role |-> last[i].role, content |-> last[i].content]]
        \o <<[role |-> "user", content |-> user_input]>>

UserInput(turn) == 2 * turn - 1
Response(turn) == 2 * turn

\* create_session: put_item of META under a fresh uuid4, so before any other
\* use of the session id
create_session ==
    /\ mem = NoMemory
    /\ mem' = [mem EXCEPT !.created = TRUE, !.meta = TRUE]
    /\ UNCHANGED <<audioVars, retry, sess, agui, proj, http, api>>

\* process, steps 1 to 4: get_history, _get_relevant_context, the tools and
\* _generate_response
process ==
    /\ mem.cpc = "idle"
    /\ mem.turns < MaxTurns
    /\ \E user_id \in UserIds :
          mem' = [mem EXCEPT
                    !.cpc = "put_user",
                    !.user_id = user_id,
                    !.context = get_relevant_context(mem.events, user_id),
                    !.request = generate_response(UserInput(mem.turns + 1),
                                    get_history(mem.messages, history_limit))]
    /\ UNCHANGED <<audioVars, retry, sess, agui, proj, http, api>>

\* add_message, first half: put_item of the MESSAGE#<timestamp> item
add_message_put ==
    /\ mem.cpc \in {"put_user", "put_assistant"}
    /\ LET user == mem.cpc = "put_user"
           item == [sk |-> mem.now + 1,
                    role |-> IF user THEN "user" ELSE "assistant",
                    content |-> IF user THEN UserInput(mem.turns + 1)
                                ELSE Response(mem.turns + 1)]
       IN  mem' = [mem EXCEPT !.cpc = IF user THEN "update_user" ELSE "update_assistant",
                              !.now = mem.now + 1,
                              !.messages = Append(mem.messages, item)]
    /\ UNCHANGED <<audioVars, retry, sess, agui, proj, http, api>>

\* add_message, second half: update_item of META with SET updated_at, ttl
\* and no condition expression: the item is created when it does not exist
add_message_update ==
    /\ mem.cpc \in {"update_user", "update_assistant"}
    /\ mem' = [mem EXCEPT !.cpc = IF mem.cpc = "update_user" THEN "put_assistant"
                                  ELSE "store",
                          !.meta = TRUE]
    /\ UNCHANGED <<audioVars, retry, sess, agui, proj, http, api>>

\* process, step 6: store_event(aggregate_id=session_id,
\* event_type='ConversationTurn', data=...) with no user_id; then the return,
\* which ends the life of the locals of process
store_event ==
    /\ mem.cpc = "store"
    /\ mem' = [mem EXCEPT
                 !.cpc = "idle",
                 !.turns = mem.turns + 1,
                 !.user_id = "none",
                 !.request = <<>>,
                 !.context = <<>>,
                 !.now = mem.now + 1,
                 !.events = Append(mem.events,
                               EventItem("session", "ConversationTurn",
                                         UserInput(mem.turns + 1), "none",
                                         mem.now + 1))]
    /\ UNCHANGED <<audioVars, retry, sess, agui, proj, http, api>>

\* delete_session: delete_item of META
delete_session ==
    /\ mem.dpc = "idle"
    /\ mem.deletes < MaxDeletes
    /\ mem.turns <= MaxTurnsBeforeDelete
    /\ mem' = [mem EXCEPT !.dpc = "query", !.meta = FALSE]
    /\ UNCHANGED <<audioVars, retry, sess, agui, proj, http, api>>

\* delete_session: the query of every item of the session; 0 stands for META
delete_session_query ==
    /\ mem.dpc = "query"
    /\ mem' = [mem EXCEPT
                 !.dpc = "batch",
                 !.queried = {mem.messages[i].sk : i \in 1..Len(mem.messages)}
                             \cup (IF mem.meta THEN {0} ELSE {})]
    /\ UNCHANGED <<audioVars, retry, sess, agui, proj, http, api>>

\* delete_session: the batch writer deletes the items the query returned
delete_session_batch ==
    /\ mem.dpc = "batch"
    /\ mem' = [mem EXCEPT
                 !.dpc = "idle",
                 !.deletes = mem.deletes + 1,
                 !.queried = {},
                 !.meta = mem.meta /\ 0 \notin mem.queried,
                 !.messages = SelectSeq(mem.messages,
                                        LAMBDA m : m.sk \notin mem.queried)]
    /\ UNCHANGED <<audioVars, retry, sess, agui, proj, http, api>>

NextMemory ==
    \/ create_session
    \/ process
    \/ add_message_put
    \/ add_message_update
    \/ store_event
    \/ delete_session
    \/ delete_session_query
    \/ delete_session_batch

SpecMemory == Init /\ [][NextMemory]_vars

-----------------------------------------------------------------------------
(* Properties *)

\* the highest version among the stored events, 0 for an empty stream
HighestStoredVersion ==
    IF DOMAIN store = {} THEN 0
    ELSE SetMax({store[k].version : k \in DOMAIN store})

\* an append_events call of p that passed the version check with events to write
Passed(p) == call[p].state \in {"writing", "done"} /\ call[p].evs # <<>>

\* no append_events call is between two of its puts
Quiescent == \A p \in Procs : call[p].state # "writing"

\* the persisted status: what find_by_id rehydrates from the stream
PersistedStatus(st) == FindById(st).status

\* the last event of the stored stream
LastStored(st) == st[SetMax(DOMAIN st)].event

\* C1: of the append_events calls that present the same expected version for
\* the aggregate, at most one passes the version check and writes; the others
\* raise the concurrency error.
C1_OneWriterPerExpectedVersion ==
    \A p, q \in Procs :
        (p # q /\ Passed(p) /\ Passed(q)) => call[p].exp # call[q].exp

\* C2: an append_events call whose expected version differs from the highest
\* stored version (0 for an empty stream) raises the concurrency error and
\* leaves the stored events as they were.
C2_StaleAppendRejected ==
    [][\A p \in Procs :
          (/\ call[p].state = "read"
           /\ call'[p].state # "read"
           /\ call[p].exp # HighestStoredVersion)
          => (call'[p].state = "rejected" /\ store' = store)]_vars

C2_Witness ==
    \E p \in Procs :
        /\ call[p].state = "rejected"
        /\ DOMAIN store # {}
        /\ call[p].exp < HighestStoredVersion

\* C3: what get_events returns holds, of the events of any one append_events
\* call that passed the check, either none or all of them.
C3_BatchAllOrNothing ==
    \A p \in Procs :
        Passed(p) =>
            LET seen == GetEvents(store, 0)
                mine == {j \in 1..Len(call[p].evs) :
                            \E n \in 1..Len(seen) :
                                /\ seen[n].event = EventData(call[p].evs[j])
                                /\ seen[n].version = call[p].exp + j}
            IN  mine = {} \/ mine = 1..Len(call[p].evs)

\* C4: an event stored at a version of the stream is never replaced or removed.
C4_StoredEventsNeverChange ==
    [][\A k \in DOMAIN store : k \in DOMAIN store' /\ store'[k] = store[k]]_vars

TranscribeRaises(p) == pc[p] = "t_fail_save" /\ pc'[p] = "idle"

\* C6: when TranscribeAudio raises after the aggregate was loaded, the stored
\* stream ends in AudioProcessingFailed with code TRANSCRIPTION_ERROR and the
\* persisted status is not Processing.
C6_FailurePersisted ==
    [][\A p \in Procs :
          TranscribeRaises(p) =>
              /\ LastStored(store').type = "AudioProcessingFailed"
              /\ LastStored(store').code = "TRANSCRIPTION_ERROR"
              /\ PersistedStatus(store') # PROCESSING]_vars

\* C7: whatever is raised in TranscribeAudio after the aggregate was loaded
\* reaches the caller as TranscriptionError.
C7_RaisesTranscriptionError ==
    [][\A p \in Procs :
          TranscribeRaises(p) => outcome'[p] = "TranscriptionError"]_vars

\* C8: each guarded command is accepted in its one status (Pending for
\* start_processing, Processing for the other three); in any other status it
\* raises InvalidStateError and changes neither the status nor the
\* uncommitted events.
C8_GuardedCommands ==
    [][\A p \in Procs :
          (ncmds' = ncmds + 1 /\ lastCmd' \in GuardedCommands /\ agg'[p] # NoAgg)
          => IF agg[p].status = AcceptedIn(lastCmd')
             THEN /\ outcome'[p] = "none"
                  /\ Len(agg'[p].uncommitted) = Len(agg[p].uncommitted) + 1
             ELSE /\ outcome'[p] = "InvalidStateError"
                  /\ agg'[p].status = agg[p].status
                  /\ agg'[p].uncommitted = agg[p].uncommitted]_vars

C8_Witness ==
    \E p \in Procs :
        /\ lastCmd = "complete_processing"
        /\ outcome[p] = "InvalidStateError"
        /\ agg[p].status = COMPLETED
        /\ agg[p].uncommitted # <<>>

\* C9: once the status of the aggregate is Failed, held in memory or
\* rehydrated from its stream, it stays Failed.
C9_FailedIsTerminal ==
    [][/\ PersistedStatus(store) = FAILED => PersistedStatus(store') = FAILED
       /\ \A p \in Procs :
             agg[p].status = FAILED => agg'[p].status \in {FAILED, "none"}]_vars

\* C10: a save with no command issued since the previous successful save of
\* the aggregate writes nothing to the store and raises no error.
C10_RepeatedSaveNoOp ==
    \A p \in Procs :
        sinceSave[p] = "clean" => call[p].state \notin {"writing", "rejected"}

\* C11: reconstitute is a pure fold: from a stored event sequence with
\* versions 1..n it returns the aggregate obtained by applying the events in
\* order (for [AudioCreated, AudioProcessingStarted]: status Processing with
\* the original id, user and key), with reported version n and an empty
\* uncommitted-events buffer.
C11_ReconstitutePureFold ==
    LET events == GetEvents(store, 0)
        n == Len(events)
        a == Reconstitute(events)
    IN  (n > 0 /\ \A j \in 1..n : events[j].version = j) =>
            /\ a.id = AudioId
            /\ a.user_id = UserId
            /\ a.s3_key = S3Key
            /\ ([j \in 1..n |-> events[j].event.type]
                    = <<"AudioCreated", "AudioProcessingStarted">>
                => a.status = PROCESSING)
            /\ a.version = n
            /\ a.uncommitted = <<>>

\* C12: the retry loop makes at most 3 invocation attempts for one call
\* whatever the errors; after three consecutive throttling signals it has
\* attempted exactly 3 times and has raised an error.
C12_AtMostThreeAttempts ==
    /\ retry.calls <= 3
    /\ (retry.errs = <<"ThrottlingException", "ThrottlingException",
                       "ThrottlingException">>
            => (retry.calls = 3 /\ retry.state = "raised"))

C12_Witness ==
    /\ retry.errs = <<"ThrottlingException", "ThrottlingException",
                      "ThrottlingException">>
    /\ retry.raised = "FailedAfterAttempts"

\* the errors that are neither a throttling signal, a transient/server error
\* nor a model timeout
OtherErrors ==
    InvokeOutcomes \
        {"ok", "ThrottlingException", "ServiceUnavailableException",
         "InternalServerException", "ModelTimeoutException"}

\* the error at position i of the call is the last one, the call raised it,
\* and only the errors before it were waited for
RaisedWhereItOccurred(i) ==
    /\ i = Len(retry.errs)
    /\ retry.state = "raised"
    /\ retry.raised = retry.errs[i]
    /\ Len(retry.sleeps) = i - 1

\* C13 as stated: an error that is neither a throttling signal, a
\* transient/server error nor a model timeout is raised to the caller on the
\* attempt where it occurs, with no wait and no further attempt.
C13_OtherErrorRaisedAtOnce ==
    \A i \in 1..Len(retry.errs) :
        retry.errs[i] \in OtherErrors => RaisedWhereItOccurred(i)

\* C13 amended: a ClientError whose code is neither throttling, a
\* transient/server code nor model timeout is raised to the caller on the
\* attempt where it occurs, with no wait and no further attempt.
C13_OtherClientErrorRaisedAtOnce ==
    \A i \in 1..Len(retry.errs) :
        retry.errs[i] \in OtherErrors \cap ClientErrorCodes
            => RaisedWhereItOccurred(i)

C13_Witness ==
    /\ retry.state = "raised"
    /\ retry.raised = "ValidationException"
    /\ Len(retry.errs) = 2

\* the events written to the service so far include a sessionEnd
SessionEndSent == \E i \in 1..Len(sess.sent) : sess.sent[i] = "sessionEnd"

\* C14 as stated: for every started realtime session, a sessionEnd has been
\* sent to the service by the time the client connection is closed,
\* whichever relay loop finished first and even if the client vanished.
C14_SessionEndBeforeClose ==
    (sess.started /\ sess.wsClosed) => SessionEndSent

\* C14 amended: for every realtime session started by nova_sonic_handler, a
\* sessionEnd has been sent to the service by the time the client connection
\* is closed, whichever relay loop finished first and even if the client
\* vanished.
C14_SessionEndBeforeCloseInWaitHost ==
    (sess.host = "wait" /\ sess.started /\ sess.wsClosed) => SessionEndSent

C14_Witness ==
    /\ sess.host = "wait"
    /\ sess.started
    /\ sess.wsClosed
    /\ sess.clientGone
    /\ sess.outLoop = "cancelled"
    /\ SessionEndSent

\* C15: in every hosting handler, once one of the two relay loops has
\* finished the handler does not wait for the other one, and once the
\* handler has left the relay phase no loop is still running.
C15_FirstCompletionWins ==
    /\ (sess.hpc = "relay" /\ (sess.inLoop # "run" \/ sess.outLoop # "run"))
            => RelayOver(sess)
    /\ sess.hpc \in {"teardown", "ending", "closed", "crashed"}
            => (sess.inLoop # "run" /\ sess.outLoop # "run")

NothingAfterSessionEnd ==
    \A i \in 1..Len(sess.yielded) :
        sess.yielded[i] = "sessionEnd" => i = Len(sess.yielded)

\* the last event receive_events yielded is a sessionEnd
EndedBySessionEnd ==
    /\ sess.yielded # <<>>
    /\ sess.yielded[Len(sess.yielded)] = "sessionEnd"

\* C17 as stated: receive_events stops exactly when a sessionEnd is
\* observed: sessionEnd is the last event it yields, nothing is yielded
\* after it, and the sequence does not end before a sessionEnd was observed.
C17_StopsExactlyAtSessionEnd ==
    /\ NothingAfterSessionEnd
    /\ sess.gen = "ended" => EndedBySessionEnd

\* C17 amended: sessionEnd is the last event receive_events yields and
\* nothing is yielded after it; the sequence ends when a sessionEnd was
\* observed or when the output stream of the service is exhausted.
C17_StopsAtSessionEndOrStreamEnd ==
    /\ NothingAfterSessionEnd
    /\ sess.gen = "ended" => (EndedBySessionEnd \/ sess.eof)

C17_Witness ==
    /\ sess.gen = "ended"
    /\ EndedBySessionEnd
    /\ Len(sess.yielded) = 2
    /\ ~sess.eof

\* C18: a textInput event is sent to the service only in a session whose
\* configuration enables crossmodal.
C18_TextInputOnlyCrossmodal ==
    (\E i \in 1..Len(sess.sent) : sess.sent[i] = "textInput")
        => sess.crossmodal

\* the place of an event type in the order of a run
Phase(type) ==
    CASE type = "RUN_STARTED" -> 1
      [] type = "TEXT_MESSAGE_START" -> 2
      [] type \in {"TOOL_CALL_START", "TOOL_CALL_ARGS", "TOOL_CALL_END"} -> 3
      [] type = "TEXT_MESSAGE_CONTENT" -> 4
      [] type = "TEXT_MESSAGE_END" -> 5
      [] type = "RUN_FINISHED" -> 6
      [] type = "RUN_ERROR" -> 7

\* how often the run has emitted an event of the type
Emitted(type) ==
    Cardinality({i \in 1..Len(agui.emitted) : agui.emitted[i] = type})

\* C19: for a request carrying a user message the events of the run come in
\* the order RUN_STARTED, TEXT_MESSAGE_START, the tool-call events, exactly
\* one TEXT_MESSAGE_CONTENT, TEXT_MESSAGE_END, RUN_FINISHED; after an
\* exception behind RUN_STARTED the run ends instead with a single RUN_ERROR
\* as its last event.
C19_RunEventOrder ==
    LET e == agui.emitted
        n == Len(e)
    IN  agui.state \in {"started", "tools", "finished", "failed"} =>
            /\ \A i, j \in 1..n : i < j => Phase(e[i]) <= Phase(e[j])
            /\ \A t \in {"RUN_STARTED", "TEXT_MESSAGE_START",
                          "TEXT_MESSAGE_CONTENT", "TEXT_MESSAGE_END",
                          "RUN_FINISHED", "RUN_ERROR"} : Emitted(t) <= 1
            /\ e[1] = "RUN_STARTED" /\ e[2] = "TEXT_MESSAGE_START"
            /\ agui.state = "finished" =>
                    /\ SubSeq(e, n - 2, n) =
                          <<"TEXT_MESSAGE_CONTENT", "TEXT_MESSAGE_END",
                            "RUN_FINISHED">>
                    /\ Emitted("RUN_ERROR") = 0
            /\ agui.state = "failed" =>
                    /\ e[n] = "RUN_ERROR"
                    /\ Emitted("RUN_ERROR") = 1
                    /\ Emitted("RUN_FINISHED") = 0

C19_Witness ==
    /\ agui.state = "failed"
    /\ Emitted("TOOL_CALL_END") = 1
    /\ Emitted("TOOL_CALL_START") = 2

\* the tool executions the agent reported for the turn
Reported ==
    IF agui.agent = "coordinator" THEN Len(agui.tool_calls)
    ELSE Len(agui.tool_executions)

\* C20: in a finished run the number of tool-call triples emitted equals
\* the number of tool executions the coordinator reported for the turn, and
\* each triple is TOOL_CALL_START, TOOL_CALL_ARGS, TOOL_CALL_END.
C20_OneTriplePerToolExecution ==
    LET IsToolEvent(t) == Phase(t) = 3
        tools == SelectSeq(agui.emitted, IsToolEvent)
    IN  agui.state = "finished" =>
            /\ Len(tools) = 3 * Reported
            /\ \A m \in 0..(Reported - 1) :
                  SubSeq(tools, 3 * m + 1, 3 * m + 3) =
                      <<"TOOL_CALL_START", "TOOL_CALL_ARGS", "TOOL_CALL_END">>

\* the distinct records of a set, lowest timestamp (version) first
RECURSIVE InVersionOrder(_)
InVersionOrder(S) ==
    IF S = {} THEN <<>>
    ELSE LET r == CHOOSE x \in S : \A y \in S : x.timestamp <= y.timestamp
         IN <<r>> \o InVersionOrder(S \ {r})

\* the tables projector h can leave when the records of a sequence are
\* delivered to it one after the other, each exactly once
RECURSIVE OnceEach(_, _, _)
OnceEach(h, t, recs) ==
    IF recs = <<>> THEN {t}
    ELSE UNION {OnceEach(h, ProcessRecord(h, t, Head(recs), seed), Tail(recs)) :
                   seed \in HashSeeds}

\* C21: whatever records were delivered to a projector, in whatever order
\* and however often, the items of the read model are those left by
\* delivering each distinct record once in version order
C21_DeliveryOrderAndDuplicatesIrrelevant ==
    proj.handler # "none" =>
        proj.table.items \in
            {t.items : t \in OnceEach(proj.handler, EmptyTable,
                                      InVersionOrder(proj.delivered))}

\* C22: a delivery of a MODIFY or REMOVE record leaves the read model
\* table as it was, without a single write call
C22_ModifyRemoveWriteNothing ==
    [][(proj'.n = proj.n + 1 /\ proj'.last.eventName \in {"MODIFY", "REMOVE"})
          => proj'.table = proj.table]_vars

\* C23: every request whose body is present and is not valid JSON has been
\* answered with a 400 response, and no exception left the handler
C23_InvalidJsonAnswered400 ==
    \A i \in 1..Len(http.log) :
        http.log[i].body = "invalid" =>
            /\ http.log[i].response.statusCode = 400
            /\ http.log[i].response.raised = "none"

\* TranscribeAudio of p found the aggregate outside Pending: start_processing
\* refused, so the only uncommitted event is the handler's AudioProcessingFailed
RefusedAtStart(p) ==
    /\ pc[p] = "t_fail_save"
    /\ Len(agg[p].uncommitted) = 1
    /\ agg[p].uncommitted[1].type = "AudioProcessingFailed"

\* C27: a TranscribeAudio request for an aggregate that is not Pending is
\* rejected without changing the aggregate: until the request has ended no
\* event is appended to the stream and the persisted status stays what it was
C27_NonPendingTranscribeChangesNothing ==
    [][\A p \in Procs :
          RefusedAtStart(p) =>
              /\ store' = store
              /\ PersistedStatus(store') = PersistedStatus(store)]_vars

NotFoundRaised(i) ==
    api.log[i].raised \in {"get_audio.AudioNotFoundError",
                           "transcribe_audio.AudioNotFoundError"}

\* C25: every request of the get route or the transcribe route that ended in
\* an audio-not-found error has been answered with status 404
C25_NotFoundAnswered404 ==
    \A i \in 1..Len(api.log) :
        NotFoundRaised(i) => api.log[i].status_code = 404

\* the n most recent messages stored for the session, oldest first
MostRecent(messages, n) ==
    LET from == IF Len(messages) > n THEN Len(messages) - n ELSE 0
    IN  [i \in 1..(Len(messages) - from) |->
            [role |-> messages[from + i].role, content |-> messages[from + i].content]]

\* C26: the chat request the coordinator composes carries the 10 most recent
\* messages stored for the session (all of them when fewer than 10 exist),
\* oldest first, followed by the current utterance
C26_RequestCarriesMostRecentTurns ==
    [][(mem.cpc = "idle" /\ mem'.cpc = "put_user") =>
          mem'.request = MostRecent(mem.messages, 10)
                         \o <<[role |-> "user", content |-> UserInput(mem.turns + 1)]>>]_vars

\* no add_message and no delete_session of the session is in progress
CallsReturned ==
    mem.cpc \notin {"update_user", "update_assistant"} /\ mem.dpc = "idle"

\* C28: once add_message and delete_session have returned, a session that was
\* never created, or that delete_session removed, has no metadata item
C28_AddMessageCreatesNoMetadata ==
    (CallsReturned /\ (~mem.created \/ mem.deletes > 0)) => ~mem.meta

\* C29: the ConversationTurn event stored for a turn made with a user id is
\* among the events get_recent_events returns for that user
C29_StoredTurnIsRecentEvent ==
    [][(mem.cpc = "store" /\ mem'.cpc = "idle" /\ mem.user_id # "none") =>
          \E i \in 1..Len(get_recent_events(mem'.events, mem.user_id, 10)) :
              get_recent_events(mem'.events, mem.user_id, 10)[i]
                  = mem'.events[Len(mem'.events)]]_vars

\* the generator of handle_request has returned: the stream has ended
StreamEnded == agui.state \in {"rejected", "failed", "finished"}

\* C30: when the stream of a run has ended, each TEXT_MESSAGE_START in it is
\* followed by a TEXT_MESSAGE_END (a run has one message id, which both
\* events carry), also when the run ended with RUN_ERROR
C30_TextMessageStartHasEnd ==
    StreamEnded =>
        \A i \in 1..Len(agui.emitted) :
            agui.emitted[i] = "TEXT_MESSAGE_START" =>
                \E j \in (i + 1)..Len(agui.emitted) :
                    agui.emitted[j] = "TEXT_MESSAGE_END"

====
